---- MODULE Spec2Model ----
(***************************************************************************)
(* Model of the split-bot Telegram webhook pipeline:                       *)
(*   internal/api/telegram.go      TelegramWebhook, parseBody,             *)
(*                                 preProcessMsg, handlePhotoMessage,      *)
(*                                 handleDocumentMessage                   *)
(*   internal/ocr/mistral.go       MistralOCR.ExtractTextFromImage         *)
(*   internal/splitbot/bot.go      Bot.HandleMessage                       *)
(*   internal/telegram/api.go      TelegramAPI.GetImageUrl, SendMessage    *)
(*                                                                         *)
(* Conventions.  A Go pointer or optional value is a sequence of length 0  *)
(* (nil) or 1.  A Go error is a sequence of message pieces, the pieces of  *)
(* the format string and its arguments; the nil error is <<>>.  A string   *)
(* built by fmt.Sprintf is likewise the sequence of its pieces.            *)
(***************************************************************************)
EXTENDS Integers, Sequences, FiniteSets, TLC

\* ------------------------------------------------------------------ bounds
MaxPhotos == 3       \* longest photo-variant list of an inbound message
MaxPages  == 2       \* most pages in an OCR provider response
MaxDetail == 2       \* most detail entries in a validation-error body

\* --------------------------------------------------------- program constants
StatusOK         == 200
StatusValidation == 442
OcrFailedText    == "OCR extraction failed"

\* ------------------------------------------------------------ input domains
Reqs == {1, 2}                       \* request-handling goroutines

SeqsUpTo(S, n) == UNION {[1..k -> S] : k \in 0..n}
Opt(S) == {<<>>} \cup {<<x>> : x \in S}

Texts    == {"", "Hello"}
Captions == {"", "lunch bill"}
ChatIDs  == {1001, 1002}
Users    == {[ID |-> 7, Username |-> "naseer"]}
\* telegram.Photo: the variants are NOT assumed to come in ascending size
PhotoVariants == {[FileID |-> "p-big", Width |-> 800, Height |-> 600],
                  [FileID |-> "p-small", Width |-> 90, Height |-> 60]}
Documents == {[FileID |-> "d1", FileName |-> "bill.pdf"]}
Tokens    == {"", "tok"}             \* the bot token held by TelegramAPI

\* telegram.Message
TgMessages ==
  [Text : Texts, Chat : [ID : ChatIDs], From : Opt(Users),
   Photo : SeqsUpTo(PhotoVariants, MaxPhotos), Caption : Captions,
   Document : Opt(Documents)]

\* The raw request body handed to the webhook: unreadable, not JSON of an
\* Update, or the JSON of an Update (whose "message" may be absent).
RawBodies ==
  {[kind |-> "unreadable", message |-> <<>>],
   [kind |-> "invalid", message |-> <<>>]}
  \cup [kind : {"update"}, message : Opt(TgMessages)]

\* ------------------------------------------------------------------- errors
NilErr == <<>>
IsErr(e) == e # NilErr

\* -------------------------------------------------------------- parseBody
\* Variant: the json.Unmarshal error is dropped, the zero Update is returned.
parseBody_Lenient(body) ==
  IF body.kind = "unreadable"
    THEN [update |-> <<>>, err |-> <<"failed to read body">>]
  ELSE IF body.kind = "invalid"
    THEN [update |-> <<[Message |-> <<>>]>>, err |-> NilErr]
  ELSE [update |-> <<[Message |-> body.message]>>, err |-> NilErr]

\* parseBody: GetRawData fails, json.Unmarshal fails, or the Update.
parseBody(body) ==
  IF body.kind = "unreadable"
    THEN [update |-> <<>>, err |-> <<"failed to read body">>]
  ELSE IF body.kind = "invalid"
    THEN [update |-> <<>>, err |-> <<"invalid payload - ", "<body>">>]
  ELSE [update |-> <<[Message |-> body.message]>>, err |-> NilErr]

\* ---------------------------------------------------- telegram.TelegramAPI
FilePaths == {"photos/file_1.jpg", "documents/file_2.pdf"}

\* What the getFile endpoint can answer: no answer (transport error), a
\* non-2xx status, a 2xx answer with ok=false, a 2xx answer with a file path.
GetFileResponses ==
  {[transport |-> FALSE, status |-> 0, ok |-> FALSE, file_path |-> ""],
   [transport |-> TRUE, status |-> 404, ok |-> FALSE, file_path |-> ""],
   [transport |-> TRUE, status |-> 200, ok |-> FALSE, file_path |-> ""]}
  \cup [transport : {TRUE}, status : {200}, ok : {TRUE}, file_path : FilePaths]

Is2xx(status) == status >= 200 /\ status < 300

\* TelegramAPI.GetImageUrl(requestID, fileId), given the endpoint's answer.
GetImageUrl(tok, fileId, resp) ==
  IF tok = ""
    THEN [url |-> <<>>, err |-> <<"TELEGRAM_BOT_TOKEN is not set">>]
  ELSE IF ~resp.transport
    THEN [url |-> <<>>, err |-> <<"failed to get file info: ", "transport">>]
  ELSE IF ~Is2xx(resp.status)
    THEN [url |-> <<>>,
          err |-> <<"telegram getFile returned non-2xx status: ", resp.status>>]
  ELSE IF ~resp.ok
    THEN [url |-> <<>>,
          err |-> <<"telegram API returned error for file_id: ", fileId>>]
  ELSE [url |-> <<"https://api.telegram.org/file/bot", tok, "/", resp.file_path>>,
        err |-> NilErr]

\* What the sendMessage endpoint can answer.
SendResponses ==
  {[transport |-> FALSE, status |-> 0],
   [transport |-> TRUE, status |-> 200],
   [transport |-> TRUE, status |-> 400]}

\* TelegramAPI.SendMessage(requestID, chatID, text), given the endpoint's
\* answer: the error it returns.
SendMessage(tok, resp) ==
  IF tok = ""
    THEN <<"TELEGRAM_BOT_TOKEN is not set">>
  ELSE IF ~resp.transport
    THEN <<"http call to telegram failed: ", "transport">>
  ELSE IF ~Is2xx(resp.status)
    THEN <<"telegram returned non-2xx status: ", resp.status>>
  ELSE NilErr

\* ------------------------------------------------------------ ocr.MistralOCR
Markdowns      == {"Total: $42", "Tip: $3"}
ValidationMsgs == {"field required", "invalid url"}
OcrStatuses    == {StatusOK, StatusValidation, 422, 500}

\* A response body is bytes that are not JSON ("garbage"), the JSON of an OCR
\* result with its pages, or the JSON of a validation error with its details.
OcrBodies ==
  {[kind |-> "garbage", pages |-> <<>>, detail |-> <<>>]}
  \cup [kind : {"ocr"}, pages : SeqsUpTo([Markdown : Markdowns], MaxPages),
        detail : {<<>>}]
  \cup [kind : {"validation"}, pages : {<<>>},
        detail : SeqsUpTo([Msg : ValidationMsgs], MaxDetail)]

\* What the OCR provider can answer: no answer, or a status and a body.
OcrResponses ==
  {[transport |-> FALSE, status |-> 0,
    body |-> [kind |-> "garbage", pages |-> <<>>, detail |-> <<>>]]}
  \cup [transport : {TRUE}, status : OcrStatuses, body : OcrBodies]

\* json.Unmarshal(body, &MistralOCRResponse): fails on bytes that are not
\* JSON; a JSON object without "pages" leaves Pages empty.
UnmarshalOCRResponse(body) ==
  IF body.kind = "garbage" THEN [ok |-> FALSE, Pages |-> <<>>]
  ELSE [ok |-> TRUE, Pages |-> body.pages]

\* json.Unmarshal(body, &MistralValidationError): a JSON object without
\* "detail" leaves Detail empty.
UnmarshalValidationError(body) ==
  IF body.kind = "garbage" THEN [ok |-> FALSE, Detail |-> <<>>]
  ELSE [ok |-> TRUE, Detail |-> body.detail]

\* Variant: the page count is not checked, the first page is returned.
ExtractOK_NoPageCheck(body) ==
  LET r == UnmarshalOCRResponse(body) IN
  IF ~r.ok
    THEN [text |-> "", err |-> <<"failed to unmarshal response: ", "json">>]
  ELSE IF Len(r.Pages) = 0
    THEN [text |-> "", err |-> <<"expected exactly 1 page, got ", Len(r.Pages)>>]
  ELSE [text |-> r.Pages[1].Markdown, err |-> NilErr]

\* The 200 branch of ExtractTextFromImage.
ExtractOK(body) ==
  LET r == UnmarshalOCRResponse(body) IN
  IF ~r.ok
    THEN [text |-> "", err |-> <<"failed to unmarshal response: ", "json">>]
  ELSE IF Len(r.Pages) # 1
    THEN [text |-> "", err |-> <<"expected exactly 1 page, got ", Len(r.Pages)>>]
  ELSE [text |-> r.Pages[1].Markdown, err |-> NilErr]

\* The 442 branch of ExtractTextFromImage.
ExtractValidation(body) ==
  LET r == UnmarshalValidationError(body) IN
  IF ~r.ok
    THEN [text |-> "",
          err |-> <<"failed to unmarshal validation error: ", "json">>]
  ELSE IF Len(r.Detail) > 0
    THEN [text |-> "", err |-> <<"validation error: ", r.Detail[1].Msg>>]
  ELSE [text |-> "", err |-> <<"validation error: ", "unknown validation error">>]

\* MistralOCR.ExtractTextFromImage(requestID, imageURL), given the provider's
\* answer: the (string, error) it returns.
ExtractTextFromImage(resp) ==
  IF ~resp.transport
    THEN [text |-> "", err |-> <<"failed to make request: ", "transport">>]
  ELSE IF resp.status = StatusOK THEN ExtractOK(resp.body)
  ELSE IF resp.status = StatusValidation THEN ExtractValidation(resp.body)
  ELSE [text |-> "",
        err |-> <<"API request failed with status ", resp.status, ": ",
                  resp.body>>]

\* ---------------------------------------------------------- splitbot.Bot
LlmOutputs == {"Hello", "Hi! How can I help?"}
\* What chains.Run on the agent executor can return.
RunResults ==
  [output : LlmOutputs, err : {NilErr}]
  \cup {[output |-> "", err |-> <<"executor failed">>]}

\* ------------------------------------------------------------------- state
VARIABLES
  token,      \* TelegramAPI.token, fixed when the webhook is constructed
  body,       \* body[r]: the raw request body of request r
  pc,         \* pc[r]: where request r's handler is
  msg,        \* msg[r]: the *splitbot.Message under construction (nil = <<>>)
  chatID,     \* chatID[r]: the chat id preProcessMsg returned
  url,        \* url[r]: the url local of handlePhotoMessage/handleDocumentMessage
  ocrResp,    \* ocrResp[r]: what the OCR provider answered to request r's call
  response,   \* response[r]: the string HandleMessage returned
  calls,      \* calls[r]: the collaborator calls request r made, in order
  reply       \* reply[r]: the HTTP answer written with c.JSON (none = <<>>)

vars == <<token, body, pc, msg, chatID, url, ocrResp, response, calls, reply>>

\* The telegram.Message of request r (defined once the body parsed).
TgMsg(r) == body[r].message[1]

Call(fn, args, ret) == [fn |-> fn, args |-> args, ret |-> ret]

\* c.JSON(code, gin.H{key: val})
Json(code, key, val) == <<[code |-> code, key |-> key, val |-> val]>>

\* ------------------------------------------------------------ preProcessMsg
\* splitbot.User built from update.Message.From (zero User when From is nil).
FromUser(from) ==
  IF from # <<>> THEN [ID |-> from[1].ID, Username |-> from[1].Username]
  ELSE [ID |-> 0, Username |-> ""]

\* Variant: the document is tested before the photo list.
AttachmentBranch_DocumentFirst(m) ==
  IF m.Document # <<>> THEN "docUrl"
  ELSE IF Len(m.Photo) > 0 THEN "photoUrl"
  ELSE "handle"

\* Variant: the OCR call is made without resolving the file id first.
AttachmentBranch_NoResolve(m) ==
  IF Len(m.Photo) > 0 THEN "photoOcr"
  ELSE IF m.Document # <<>> THEN "docOcr"
  ELSE "handle"

\* preProcessMsg lines 155-168: a non-empty photo list is handled first and
\* returns; a document is looked at only when there is no photo.
AttachmentBranch(m) ==
  IF Len(m.Photo) > 0 THEN "photoUrl"
  ELSE IF m.Document # <<>> THEN "docUrl"
  ELSE "handle"

\* Variant: the variant of greatest width is picked.
highestResPhoto_Widest(photos) ==
  photos[CHOOSE i \in 1..Len(photos) :
           \A j \in 1..Len(photos) : photos[i].Width >= photos[j].Width]

\* handlePhotoMessage line 86.
highestResPhoto(photos) == photos[Len(photos)]

\* Variant: the OCR error is logged but the returned string is kept as is.
extractedText_NoFallback(o) == o.text

\* Variant: the error test is inverted.
extractedText_Inverted(o) == IF ~IsErr(o.err) THEN OcrFailedText ELSE o.text

\* handlePhotoMessage lines 95-99 (and handleDocumentMessage 120-124): the
\* text kept from the OCR call's (string, error).
extractedText(o) == IF IsErr(o.err) THEN OcrFailedText ELSE o.text

\* Variant: the caption is never copied into the message.
captionOverride_Never(text, caption) == text

\* Variant: the caption is copied unconditionally (msg.Text = caption).
captionOverride_Always(text, caption) == caption

\* handlePhotoMessage lines 106-108 (and handleDocumentMessage 131-133).
captionOverride(text, caption) == IF caption # "" THEN caption ELSE text

\* The splitbot.Image literal of lines 101-105 / 126-130.
Image(fileID, u, o) ==
  [FileID |-> fileID, Url |-> u, ExtractedText |-> extractedText(o)]

\* Variant: an update without message is answered as an error.
IgnoredReply_Error == Json(500, "error", <<"no message">>)

\* Variant: the handler returns on a nil message without writing an answer.
IgnoredReply_None == <<>>

\* TelegramWebhook lines 47-50: the answer to an update without message.
IgnoredReply == Json(200, "status", <<"ignored">>)

\* TelegramWebhook lines 38-50 with preProcessMsg lines 138-154: parse the
\* body; a parse error is answered 500, an update without message "ignored".
PreProcessMsg(r) ==
  /\ pc[r] = "start"
  /\ LET p == parseBody(body[r]) IN
       IF IsErr(p.err)
         THEN /\ reply' = [reply EXCEPT ![r] = Json(500, "error", p.err)]
              /\ pc' = [pc EXCEPT ![r] = "done"]
              /\ UNCHANGED <<msg, chatID>>
       ELSE IF p.update[1].Message = <<>>
         THEN /\ reply' = [reply EXCEPT ![r] = IgnoredReply]
              /\ pc' = [pc EXCEPT ![r] = "done"]
              /\ UNCHANGED <<msg, chatID>>
       ELSE LET m == p.update[1].Message[1] IN
              /\ msg' = [msg EXCEPT ![r] =
                           <<[Text |-> m.Text, From |-> FromUser(m.From),
                              Image |-> <<>>]>>]
              /\ pc' = [pc EXCEPT ![r] = AttachmentBranch(m)]
              /\ chatID' = [chatID EXCEPT ![r] =
                              IF AttachmentBranch(m) = "handle"
                                THEN m.Chat.ID ELSE chatID[r]]
              /\ UNCHANGED reply
  /\ UNCHANGED <<token, body, url, ocrResp, response, calls>>

\* Lines 89-92 / 114-117: resolve the file id; on failure preProcessMsg
\* returns (nil, 0, err) and the handler answers 500.
Resolve(r, fileID, nextPc) ==
  \E resp \in GetFileResponses :
    LET g == GetImageUrl(token, fileID, resp) IN
      /\ calls' = [calls EXCEPT ![r] =
                     Append(@, Call("GetImageUrl", <<fileID>>, g))]
      /\ IF IsErr(g.err)
           THEN /\ msg' = [msg EXCEPT ![r] = <<>>]
                /\ reply' = [reply EXCEPT ![r] =
                               Json(500, "error", <<"failed to get image URL">>)]
                /\ pc' = [pc EXCEPT ![r] = "done"]
                /\ UNCHANGED url
           ELSE /\ url' = [url EXCEPT ![r] = g.url]
                /\ pc' = [pc EXCEPT ![r] = nextPc]
                /\ UNCHANGED <<msg, reply>>
      /\ UNCHANGED <<token, body, chatID, ocrResp, response>>

\* Variant: the photo branch does not return, a document is handled as well.
afterExtract_FallThrough(r) ==
  IF pc[r] = "photoOcr" /\ TgMsg(r).Document # <<>> THEN "docUrl" ELSE "handle"

\* preProcessMsg lines 160 and 166: each attachment branch returns the
\* message right after its handler, so HandleMessage is what follows.
afterExtract(r) == "handle"

\* Lines 95-109 / 120-134: the OCR call, the Image, the caption override;
\* then preProcessMsg returns (msg, Chat.ID, nil).
Extract(r, fileID) ==
  \E resp \in OcrResponses :
    LET o == ExtractTextFromImage(resp) IN
      /\ calls' = [calls EXCEPT ![r] =
                     Append(@, Call("ExtractTextFromImage", <<url[r]>>, o))]
      /\ ocrResp' = [ocrResp EXCEPT ![r] = <<resp>>]
      /\ msg' = [msg EXCEPT ![r] =
                   <<[Text |-> captionOverride(msg[r][1].Text, TgMsg(r).Caption),
                      From |-> msg[r][1].From,
                      Image |-> <<Image(fileID, url[r], o)>>]>>]
      /\ chatID' = [chatID EXCEPT ![r] = TgMsg(r).Chat.ID]
      /\ pc' = [pc EXCEPT ![r] = afterExtract(r)]
      /\ UNCHANGED <<token, body, url, response, reply>>

handlePhotoMessage_GetImageUrl(r) ==
  /\ pc[r] = "photoUrl"
  /\ Resolve(r, highestResPhoto(TgMsg(r).Photo).FileID, "photoOcr")

handlePhotoMessage_OCR(r) ==
  /\ pc[r] = "photoOcr"
  /\ Extract(r, highestResPhoto(TgMsg(r).Photo).FileID)

handleDocumentMessage_GetImageUrl(r) ==
  /\ pc[r] = "docUrl"
  /\ Resolve(r, TgMsg(r).Document[1].FileID, "docOcr")

handleDocumentMessage_OCR(r) ==
  /\ pc[r] = "docOcr"
  /\ Extract(r, TgMsg(r).Document[1].FileID)

\* --------------------------------------------------------- Bot.HandleMessage
\* Bot.HandleMessage line 57: chains.Run is reached only without an Image.
UsesAgent(m) == m.Image = <<>>

\* Stands for "chains.Run was not called".
NoRun == [output |-> "", err |-> NilErr]

\* Variant: the message text is echoed back (the agent's output is dropped).
HandleMessageResult_Echo(m, res) ==
  IF m.Image # <<>>
    THEN [response |-> m.Image[1].ExtractedText, err |-> NilErr]
  ELSE [response |-> m.Text, err |-> res.err]

\* Variant: the Image test is missing.
HandleMessageResult_IgnoreImage(m, res) ==
  [response |-> res.output, err |-> res.err]

\* Variant: a chains.Run error is swallowed and the message text returned.
HandleMessageResult_Swallow(m, res) ==
  IF m.Image # <<>>
    THEN [response |-> m.Image[1].ExtractedText, err |-> NilErr]
  ELSE IF res.err # NilErr THEN [response |-> m.Text, err |-> NilErr]
  ELSE [response |-> res.output, err |-> res.err]

\* Bot.HandleMessage: the (string, error) it returns for message m, res being
\* what chains.Run returns when it is called.
HandleMessageResult(m, res) ==
  IF m.Image # <<>>
    THEN [response |-> m.Image[1].ExtractedText, err |-> NilErr]
  ELSE [response |-> res.output, err |-> res.err]

\* TelegramWebhook lines 52-59 around Bot.HandleMessage.
HandleMessage(r) ==
  /\ pc[r] = "handle"
  /\ LET m == msg[r][1] IN
     \E res \in (IF UsesAgent(m) THEN RunResults ELSE {NoRun}) :
       LET h == HandleMessageResult(m, res) IN
         /\ calls' = [calls EXCEPT ![r] =
                        IF UsesAgent(m)
                          THEN Append(@, Call("chains.Run", <<m.Text>>, res))
                          ELSE @]
         /\ IF IsErr(h.err)
              THEN /\ reply' = [reply EXCEPT ![r] = Json(500, "error", h.err)]
                   /\ pc' = [pc EXCEPT ![r] = "done"]
                   /\ UNCHANGED response
              ELSE /\ response' = [response EXCEPT ![r] = h.response]
                   /\ pc' = [pc EXCEPT ![r] = "send"]
                   /\ UNCHANGED reply
  /\ UNCHANGED <<token, body, msg, chatID, url, ocrResp>>

\* Variant: the chat id is kept in a field shared by all handlers (here the
\* one written by the lowest-numbered request that has normalized).
sendArgs_SharedChat(r) ==
  <<chatID[CHOOSE q \in Reqs :
             /\ chatID[q] # 0
             /\ \A p \in Reqs : chatID[p] # 0 => q <= p],
    response[r]>>

\* TelegramWebhook line 61: SendMessage(requestID, chatID, response) with the
\* handler's own locals.
sendArgs(r) == <<chatID[r], response[r]>>

\* TelegramWebhook lines 61-68: send the response to the chat.
SendReply(r) ==
  /\ pc[r] = "send"
  /\ \E resp \in SendResponses :
       LET e == SendMessage(token, resp) IN
         /\ calls' = [calls EXCEPT ![r] =
                        Append(@, Call("SendMessage", sendArgs(r),
                                       [err |-> e]))]
         /\ reply' = [reply EXCEPT ![r] =
                        IF IsErr(e)
                          THEN Json(502, "error", <<"failed to send OCR result">>)
                          ELSE Json(200, "status", <<"ok">>)]
         /\ pc' = [pc EXCEPT ![r] = "done"]
  /\ UNCHANGED <<token, body, msg, chatID, url, ocrResp, response>>

\* ------------------------------------------------------------ specification
\* One request has arrived and its handler is about to run; the other
\* goroutine slot is unused.
Init ==
  /\ token \in Tokens
  /\ \E b \in RawBodies :
       body = [r \in Reqs |-> IF r = 1 THEN b
                              ELSE [kind |-> "unreadable", message |-> <<>>]]
  /\ pc = [r \in Reqs |-> IF r = 1 THEN "start" ELSE "absent"]
  /\ msg = [r \in Reqs |-> <<>>]
  /\ chatID = [r \in Reqs |-> 0]
  /\ url = [r \in Reqs |-> <<>>]
  /\ ocrResp = [r \in Reqs |-> <<>>]
  /\ response = [r \in Reqs |-> ""]
  /\ calls = [r \in Reqs |-> <<>>]
  /\ reply = [r \in Reqs |-> <<>>]

Next ==
  \E r \in Reqs :
    \/ PreProcessMsg(r)
    \/ handlePhotoMessage_GetImageUrl(r)
    \/ handlePhotoMessage_OCR(r)
    \/ handleDocumentMessage_GetImageUrl(r)
    \/ handleDocumentMessage_OCR(r)
    \/ HandleMessage(r)
    \/ SendReply(r)

Spec == Init /\ [][Next]_vars

\* One step of request r's handler.
Step(r) ==
  \/ PreProcessMsg(r)
  \/ handlePhotoMessage_GetImageUrl(r)
  \/ handlePhotoMessage_OCR(r)
  \/ handleDocumentMessage_GetImageUrl(r)
  \/ handleDocumentMessage_OCR(r)
  \/ HandleMessage(r)
  \/ SendReply(r)

\* Every collaborator call returns and the goroutine of a request is
\* scheduled: a handler that can take a step eventually takes it.
Fairness == \A r \in Reqs : WF_vars(Step(r))

\* The requests of Init whose photo list has at most one variant (how long
\* the list is does not change which steps the handler takes).
FairInit ==
  /\ Init
  /\ body[1].message # <<>> => Len(body[1].message[1].Photo) <= 1

FairSpec == FairInit /\ [][Next]_vars /\ Fairness

\* Two requests handled concurrently, each by its own goroutine.  Request 1
\* is an invalid payload, a text message or a captioned photo in chat 1001;
\* request 2 is an update without message, a text message or a document in
\* chat 1002.
ConcUser == [ID |-> 7, Username |-> "naseer"]

ConcBodies1 ==
  {[kind |-> "invalid", message |-> <<>>],
   [kind |-> "update",
    message |-> <<[Text |-> "Hello", Chat |-> [ID |-> 1001], From |-> <<ConcUser>>,
                   Photo |-> <<>>, Caption |-> "", Document |-> <<>>]>>],
   [kind |-> "update",
    message |-> <<[Text |-> "", Chat |-> [ID |-> 1001], From |-> <<ConcUser>>,
                   Photo |-> <<[FileID |-> "p-big", Width |-> 800, Height |-> 600]>>,
                   Caption |-> "lunch bill", Document |-> <<>>]>>]}

ConcBodies2 ==
  {[kind |-> "update", message |-> <<>>],
   [kind |-> "update",
    message |-> <<[Text |-> "Hello", Chat |-> [ID |-> 1002], From |-> <<>>,
                   Photo |-> <<>>, Caption |-> "", Document |-> <<>>]>>],
   [kind |-> "update",
    message |-> <<[Text |-> "Hello", Chat |-> [ID |-> 1002], From |-> <<ConcUser>>,
                   Photo |-> <<>>, Caption |-> "",
                   Document |-> <<[FileID |-> "d1", FileName |-> "bill.pdf"]>>]>>]}

ConcInit ==
  /\ token \in Tokens
  /\ \E b1 \in ConcBodies1, b2 \in ConcBodies2 :
       body = [r \in Reqs |-> IF r = 1 THEN b1 ELSE b2]
  /\ pc = [r \in Reqs |-> "start"]
  /\ msg = [r \in Reqs |-> <<>>]
  /\ chatID = [r \in Reqs |-> 0]
  /\ url = [r \in Reqs |-> <<>>]
  /\ ocrResp = [r \in Reqs |-> <<>>]
  /\ response = [r \in Reqs |-> ""]
  /\ calls = [r \in Reqs |-> <<>>]
  /\ reply = [r \in Reqs |-> <<>>]

\* Any interleaving of the steps of the two handlers.
SpecConc == ConcInit /\ [][Next]_vars

\* ================================================================== claims
HasMessage(r)  == body[r].kind = "update" /\ body[r].message # <<>>
HasPhoto(r)    == HasMessage(r) /\ Len(TgMsg(r).Photo) > 0
HasDocument(r) == HasMessage(r) /\ TgMsg(r).Document # <<>>

\* preProcessMsg has returned a message and a nil error.
Normalized(r) == msg[r] # <<>> /\ pc[r] \in {"handle", "send", "done"}

\* The OCR provider has answered request r's call.
OcrAnswered(r) == ocrResp[r] # <<>>

\* The provider's answer is one of the failures: no answer, a status other
\* than 200, a 200 whose body is not JSON, a 200 with other than one page.
OcrFailure(resp) ==
  \/ ~resp.transport
  \/ resp.status # 200
  \/ resp.body.kind = "garbage"
  \/ Len(resp.body.pages) # 1

\* The provider answered 200 with a JSON body of exactly one page.
OcrOnePage(resp) ==
  /\ resp.transport
  /\ resp.status = 200
  /\ resp.body.kind # "garbage"
  /\ Len(resp.body.pages) = 1

CallsOf(r, fn) == {i \in 1..Len(calls[r]) : calls[r][i].fn = fn}

\* C1: whenever the file URL resolved and the OCR call failed in any way
\* (transport error, non-200 status, validation error, page count other than
\* 1, unparseable body), preProcessMsg has returned a message and no error,
\* and the message's Image.ExtractedText is exactly "OCR extraction failed".
C1_OcrFailureYieldsSentinel ==
  \A r \in Reqs :
    (OcrAnswered(r) /\ OcrFailure(ocrResp[r][1])) =>
      /\ Normalized(r)
      /\ msg[r][1].Image # <<>>
      /\ msg[r][1].Image[1].ExtractedText = "OCR extraction failed"

\* A document-only event whose OCR call got a validation error with details.
C1_Witness ==
  \E r \in Reqs :
    /\ HasDocument(r) /\ ~HasPhoto(r)
    /\ OcrAnswered(r)
    /\ ocrResp[r][1].status = 442
    /\ Len(ocrResp[r][1].body.detail) > 0
    /\ Normalized(r)
    /\ msg[r][1].Image[1].ExtractedText = "OCR extraction failed"

\* C2: for an event with a non-empty caption and an attachment whose URL
\* resolved, the normalized message's Text is the caption, not the event's
\* text field, whether the OCR call succeeded or failed.
C2_CaptionOverridesText ==
  \A r \in Reqs :
    (Normalized(r) /\ (HasPhoto(r) \/ HasDocument(r)) /\ TgMsg(r).Caption # "") =>
      /\ msg[r][1].Text = TgMsg(r).Caption
      /\ msg[r][1].Text # TgMsg(r).Text

\* A photo with text "Hello" and a caption, OCR failed, Text is the caption.
C2_Witness ==
  \E r \in Reqs :
    /\ HasPhoto(r) /\ Normalized(r)
    /\ TgMsg(r).Text = "Hello" /\ TgMsg(r).Caption = "lunch bill"
    /\ OcrFailure(ocrResp[r][1])
    /\ msg[r][1].Text = "lunch bill"

\* C3 as stated: every normalized message with an Image has Text equal to
\* the event's caption, also when the caption is empty.
C3_TextIsCaptionEvenIfEmpty ==
  \A r \in Reqs :
    (Normalized(r) /\ msg[r][1].Image # <<>>) =>
      msg[r][1].Text = TgMsg(r).Caption

\* C3 amended: every normalized message with an Image has Text equal to the
\* event's caption when the caption is non-empty, and equal to the event's
\* text field when the caption is empty.
C3_TextIsCaptionOrOriginal ==
  \A r \in Reqs :
    (Normalized(r) /\ msg[r][1].Image # <<>>) =>
      /\ TgMsg(r).Caption # "" => msg[r][1].Text = TgMsg(r).Caption
      /\ TgMsg(r).Caption = "" => msg[r][1].Text = TgMsg(r).Text

\* An attachment with an empty caption and text "Hello": Text stays "Hello".
C3_Witness ==
  \E r \in Reqs :
    /\ Normalized(r) /\ msg[r][1].Image # <<>>
    /\ TgMsg(r).Caption = "" /\ TgMsg(r).Text = "Hello"
    /\ msg[r][1].Text = "Hello"

NoAttachment(r) == HasMessage(r) /\ ~HasPhoto(r) /\ ~HasDocument(r)

OkReply      == Json(200, "status", <<"ok">>)
SendFailedReply == Json(502, "error", <<"failed to send OCR result">>)

\* C4 as stated: for an event with text and no photo and no document, the
\* reply passed to SendMessage equals the event's text unchanged.
C4_ReplyEqualsText ==
  \A r \in Reqs :
    (NoAttachment(r) /\ TgMsg(r).Text # "") =>
      \A i \in CallsOf(r, "SendMessage") : calls[r][i].args[2] = TgMsg(r).Text

\* C4 amended: for an event with no photo and no document, HandleMessage
\* always calls the agent (chains.Run), exactly once and with the event's text
\* unchanged, and the reply passed to SendMessage is the agent's output.
C4_ReplyIsAgentOutput ==
  \A r \in Reqs :
    (NoAttachment(r) /\ pc[r] \in {"send", "done"}) =>
      /\ Len(calls[r]) >= 1
      /\ calls[r][1].fn = "chains.Run"
      /\ calls[r][1].args = <<TgMsg(r).Text>>
      /\ Cardinality(CallsOf(r, "chains.Run")) = 1
      /\ pc[r] = "send" =>
           /\ ~IsErr(calls[r][1].ret.err)
           /\ response[r] = calls[r][1].ret.output
      /\ \A i \in CallsOf(r, "SendMessage") :
           calls[r][i].args = <<TgMsg(r).Chat.ID, calls[r][1].ret.output>>

\* Text "Hello", no attachment: the agent's answer is what was sent.
C4_Witness ==
  \E r \in Reqs :
    /\ NoAttachment(r) /\ TgMsg(r).Text = "Hello"
    /\ pc[r] = "done" /\ reply[r] = OkReply
    /\ Len(calls[r]) = 2
    /\ calls[r][2].fn = "SendMessage"
    /\ calls[r][2].args[2] = "Hi! How can I help?"

\* C5: for an event with both a non-empty photo list and a document, the
\* Image's FileID is the chosen photo variant's and not the document's, and
\* GetImageUrl and the OCR call are each made once, for the photo only.
C5_PhotoWinsOverDocument ==
  \A r \in Reqs :
    (HasPhoto(r) /\ HasDocument(r)) =>
      LET photoID == TgMsg(r).Photo[Len(TgMsg(r).Photo)].FileID
          docID   == TgMsg(r).Document[1].FileID
      IN /\ Cardinality(CallsOf(r, "GetImageUrl")) <= 1
         /\ Cardinality(CallsOf(r, "ExtractTextFromImage")) <= 1
         /\ \A i \in CallsOf(r, "GetImageUrl") :
              calls[r][i].args = <<photoID>> /\ calls[r][i].args # <<docID>>
         /\ Normalized(r) =>
              /\ msg[r][1].Image # <<>>
              /\ msg[r][1].Image[1].FileID = photoID
              /\ msg[r][1].Image[1].FileID # docID
              /\ Cardinality(CallsOf(r, "GetImageUrl")) = 1
              /\ Cardinality(CallsOf(r, "ExtractTextFromImage")) = 1
              /\ calls[r][1].fn = "GetImageUrl"
              /\ calls[r][2].fn = "ExtractTextFromImage"
              /\ calls[r][2].args = <<calls[r][1].ret.url>>
              /\ msg[r][1].Image[1].Url = calls[r][1].ret.url

\* A photo and a document together, handled to the end.
C5_Witness ==
  \E r \in Reqs :
    /\ HasPhoto(r) /\ HasDocument(r)
    /\ pc[r] = "done" /\ reply[r] = OkReply
    /\ msg[r][1].Image[1].FileID = "p-big"

\* C6: for every non-empty photo list the variant resolved and recorded as
\* the Image's FileID is the last element, whatever the widths and heights.
C6_LastPhotoChosen ==
  \A r \in Reqs :
    HasPhoto(r) =>
      LET last == TgMsg(r).Photo[Len(TgMsg(r).Photo)] IN
        /\ \A i \in CallsOf(r, "GetImageUrl") : calls[r][i].args = <<last.FileID>>
        /\ pc[r] \notin {"start", "photoUrl"} => CallsOf(r, "GetImageUrl") # {}
        /\ Normalized(r) => msg[r][1].Image[1].FileID = last.FileID

\* Three variants, the last one the smallest: the smallest is the one used.
C6_Witness ==
  \E r \in Reqs :
    /\ HasPhoto(r) /\ Len(TgMsg(r).Photo) = 3
    /\ TgMsg(r).Photo[1].Width > TgMsg(r).Photo[3].Width
    /\ TgMsg(r).Photo[2].Width > TgMsg(r).Photo[3].Width
    /\ Normalized(r)
    /\ msg[r][1].Image[1].FileID = "p-small"

\* C7: an update without message ends "ignored", with no error, and none of
\* GetImageUrl, ExtractTextFromImage, HandleMessage or SendMessage is called.
C7_NilMessageIgnored ==
  \A r \in Reqs :
    (body[r].kind = "update" /\ body[r].message = <<>>) =>
      /\ pc[r] \in {"start", "done"}
      /\ calls[r] = <<>>
      /\ msg[r] = <<>>
      /\ response[r] = ""
      /\ pc[r] = "start" => reply[r] = <<>>
      /\ pc[r] = "done" =>
           reply[r] = <<[code |-> 200, key |-> "status", val |-> <<"ignored">>]>>

\* An update without message that has been answered.
C7_Witness ==
  \E r \in Reqs :
    /\ body[r].kind = "update" /\ body[r].message = <<>>
    /\ pc[r] = "done"
    /\ reply[r] # <<>> /\ reply[r][1].val = <<"ignored">>

\* C8: whenever the message given to HandleMessage has an Image, the string
\* returned is its ExtractedText (the sentinel included), no error is
\* returned and chains.Run is not called, whatever the message's Text.
C8_ImageTextReturnedVerbatim ==
  \A r \in Reqs :
    (msg[r] # <<>> /\ pc[r] \in {"send", "done"} /\ msg[r][1].Image # <<>>) =>
      /\ response[r] = msg[r][1].Image[1].ExtractedText
      /\ CallsOf(r, "chains.Run") = {}
      /\ reply[r] # <<>> => reply[r][1].code # 500
      /\ \A i \in CallsOf(r, "SendMessage") :
           calls[r][i].args[2] = msg[r][1].Image[1].ExtractedText

\* A captioned attachment whose OCR failed: the sentinel is the response.
C8_Witness ==
  \E r \in Reqs :
    /\ pc[r] = "send" /\ msg[r][1].Image # <<>>
    /\ msg[r][1].Text = "lunch bill"
    /\ response[r] = "OCR extraction failed"

\* The SendMessage call of a finished request is its last call.
SentLast(r, text) ==
  /\ Len(calls[r]) >= 1
  /\ calls[r][Len(calls[r])].fn = "SendMessage"
  /\ calls[r][Len(calls[r])].args = <<TgMsg(r).Chat.ID, text>>
  /\ Cardinality(CallsOf(r, "SendMessage")) = 1

\* C9 as stated: for a photo whose URL resolved and whose OCR answer is a
\* success with one page, the text passed to SendMessage is the page's
\* markdown and the handler finishes with status ok.
C9_OnePageRepliedAndOk ==
  \A r \in Reqs :
    (HasPhoto(r) /\ OcrAnswered(r) /\ OcrOnePage(ocrResp[r][1]) /\ pc[r] = "done") =>
      /\ SentLast(r, ocrResp[r][1].body.pages[1].Markdown)
      /\ reply[r] = OkReply

\* C9 amended: ... the text passed to SendMessage is the page's markdown,
\* with or without a caption; the handler finishes with status ok when
\* SendMessage succeeds and with 502 "failed to send OCR result" when it fails.
C9_OnePageReplied ==
  \A r \in Reqs :
    (HasPhoto(r) /\ OcrAnswered(r) /\ OcrOnePage(ocrResp[r][1]) /\ pc[r] = "done") =>
      /\ SentLast(r, ocrResp[r][1].body.pages[1].Markdown)
      /\ reply[r] = IF IsErr(calls[r][Len(calls[r])].ret.err)
                      THEN SendFailedReply ELSE OkReply

\* One variant, no caption, one page "Total: $42", delivered.
C9_Witness ==
  \E r \in Reqs :
    /\ HasPhoto(r) /\ Len(TgMsg(r).Photo) = 1 /\ TgMsg(r).Caption = ""
    /\ OcrAnswered(r) /\ OcrOnePage(ocrResp[r][1])
    /\ pc[r] = "done" /\ reply[r] = OkReply
    /\ calls[r][3].args[2] = "Total: $42"

\* The provider answered 200 with a JSON body of zero or several pages.
OcrWrongPageCount(resp) ==
  /\ resp.transport
  /\ resp.status = 200
  /\ resp.body.kind # "garbage"
  /\ Len(resp.body.pages) # 1

\* ExtractTextFromImage returned an error and no page's text.
OcrCallFailed(r) ==
  \A i \in CallsOf(r, "ExtractTextFromImage") :
    /\ IsErr(calls[r][i].ret.err)
    /\ calls[r][i].ret.text = ""

\* C10 as stated: on a 200 answer with a page count other than 1,
\* ExtractTextFromImage reports a failure and returns no page's text, the
\* reply sent is the sentinel and the event completes without error.
C10_PageCountRejectedAndOk ==
  \A r \in Reqs :
    (OcrAnswered(r) /\ OcrWrongPageCount(ocrResp[r][1])) =>
      /\ OcrCallFailed(r)
      /\ pc[r] = "done" =>
           /\ SentLast(r, "OCR extraction failed")
           /\ reply[r] = OkReply

\* C10 amended: ... ExtractTextFromImage reports a failure and returns no
\* page's text, and SendMessage is called with the sentinel; no error before
\* delivery, the handler finishing with status ok when SendMessage succeeds
\* and with 502 when SendMessage itself fails.
C10_PageCountRejected ==
  \A r \in Reqs :
    (OcrAnswered(r) /\ OcrWrongPageCount(ocrResp[r][1])) =>
      /\ OcrCallFailed(r)
      /\ pc[r] \in {"handle", "send", "done"}
      /\ pc[r] = "done" =>
           /\ SentLast(r, "OCR extraction failed")
           /\ reply[r] = IF IsErr(calls[r][Len(calls[r])].ret.err)
                           THEN SendFailedReply ELSE OkReply

\* Two pages answered: the sentinel was delivered.
C10_Witness ==
  \E r \in Reqs :
    /\ OcrAnswered(r) /\ OcrWrongPageCount(ocrResp[r][1])
    /\ Len(ocrResp[r][1].body.pages) = 2
    /\ pc[r] = "done" /\ reply[r] = OkReply
    /\ calls[r][Len(calls[r])].args[2] = "OCR extraction failed"

\* C11: if the raw payload fails to parse, or if GetImageUrl fails for a photo
\* or a document, preProcessMsg returns an error and no message, no OCR call,
\* no chains.Run call and no SendMessage call follows, and the error is
\* surfaced to the caller (500 with the error's message).
C11_NormalizationErrorAborts ==
  \A r \in Reqs :
    /\ (pc[r] # "absent" /\ body[r].kind \in {"unreadable", "invalid"}) =>
         /\ pc[r] \in {"start", "done"}
         /\ msg[r] = <<>>
         /\ calls[r] = <<>>
         /\ pc[r] = "done" =>
              /\ reply[r] # <<>>
              /\ reply[r][1].code = 500 /\ reply[r][1].key = "error"
              /\ reply[r][1].val # <<>>
              /\ reply[r][1].val[1] \in {"failed to read body", "invalid payload - "}
    /\ \A i \in CallsOf(r, "GetImageUrl") :
         calls[r][i].ret.err # <<>> =>
           /\ pc[r] = "done"
           /\ msg[r] = <<>>
           /\ i = Len(calls[r])
           /\ CallsOf(r, "ExtractTextFromImage") = {}
           /\ CallsOf(r, "chains.Run") = {}
           /\ CallsOf(r, "SendMessage") = {}
           /\ response[r] = ""
           /\ reply[r] = <<[code |-> 500, key |-> "error",
                            val |-> <<"failed to get image URL">>]>>

\* A document whose getFile call was answered 404: the handler answered 500.
C11_Witness ==
  \E r \in Reqs :
    /\ HasDocument(r) /\ ~HasPhoto(r)
    /\ pc[r] = "done"
    /\ Len(calls[r]) = 1
    /\ calls[r][1].fn = "GetImageUrl"
    /\ calls[r][1].ret.err = <<"telegram getFile returned non-2xx status: ", 404>>
    /\ reply[r][1].code = 500

\* C12: if chains.Run fails for a message without attachment, the failure is
\* propagated (the answer carries that error, not a sentinel nor the text),
\* SendMessage is never called and the handler ends with the 500 error answer.
C12_AgentFailurePropagates ==
  \A r \in Reqs :
    \A i \in CallsOf(r, "chains.Run") :
      calls[r][i].ret.err # <<>> =>
        /\ pc[r] = "done"
        /\ i = Len(calls[r])
        /\ CallsOf(r, "SendMessage") = {}
        /\ response[r] = ""
        /\ reply[r] = <<[code |-> 500, key |-> "error",
                         val |-> calls[r][i].ret.err]>>

\* Text "Hello" without attachment, the agent failed.
C12_Witness ==
  \E r \in Reqs :
    /\ NoAttachment(r) /\ TgMsg(r).Text = "Hello"
    /\ pc[r] = "done"
    /\ Len(calls[r]) = 1
    /\ calls[r][1].fn = "chains.Run"
    /\ calls[r][1].ret.err = <<"executor failed">>
    /\ reply[r][1].code = 500

\* The three outcomes of a handled event.
Delivered(r) ==
  /\ reply[r] = <<[code |-> 200, key |-> "status", val |-> <<"ok">>]>>
  /\ Cardinality(CallsOf(r, "SendMessage")) = 1
  /\ \A i \in CallsOf(r, "SendMessage") : calls[r][i].ret.err = <<>>

Ignored(r) ==
  /\ reply[r] = <<[code |-> 200, key |-> "status", val |-> <<"ignored">>]>>
  /\ CallsOf(r, "SendMessage") = {}

ErrorSurfaced(r) ==
  /\ reply[r] # <<>>
  /\ reply[r][1].key = "error"
  /\ reply[r][1].code \in {500, 502}
  /\ \A i \in CallsOf(r, "SendMessage") : calls[r][i].ret.err # <<>>

OutcomeCount(r) ==
  (IF Delivered(r) THEN 1 ELSE 0) + (IF Ignored(r) THEN 1 ELSE 0)
  + (IF ErrorSurfaced(r) THEN 1 ELSE 0)

\* C13: provided every collaborator call returns, the handling of every
\* event eventually terminates, and a terminated handling shows exactly one
\* of: reply delivered (one successful SendMessage, status ok), ignored (no
\* SendMessage attempted), error surfaced with no reply delivered; nothing is
\* answered before termination and the outcome never changes afterwards.
C13_ExactlyOneOutcome ==
  /\ \A r \in Reqs : (pc[r] = "start") ~> (pc[r] = "done")
  /\ [](\A r \in Reqs :
          /\ pc[r] = "done" => OutcomeCount(r) = 1
          /\ pc[r] # "done" => reply[r] = <<>>)
  /\ [][\A r \in Reqs :
          pc[r] = "done" =>
            pc'[r] = "done" /\ reply'[r] = reply[r] /\ calls'[r] = calls[r]]_vars

\* A handling that ended with the delivery failing: error surfaced (502).
C13_Witness ==
  \E r \in Reqs :
    /\ pc[r] = "done"
    /\ ErrorSurfaced(r) /\ ~Delivered(r) /\ ~Ignored(r)
    /\ reply[r][1].code = 502

\* The reply text that request r's own inputs determine: for an attachment,
\* the one page's markdown or the sentinel, by the answer to r's own OCR call;
\* otherwise the output of r's own chains.Run call, made on r's own text.
OwnEvent(r) == body[r].message[1]

OwnReplyText(r) ==
  IF Len(OwnEvent(r).Photo) > 0 \/ OwnEvent(r).Document # <<>>
    THEN IF OcrOnePage(ocrResp[r][1])
           THEN ocrResp[r][1].body.pages[1].Markdown
           ELSE "OCR extraction failed"
  ELSE calls[r][1].ret.output

OwnFileIDs(r) ==
  {OwnEvent(r).Photo[i].FileID : i \in 1..Len(OwnEvent(r).Photo)}
  \cup {OwnEvent(r).Document[i].FileID : i \in 1..Len(OwnEvent(r).Document)}

\* C14: in any interleaving of the handling of two events, each reply goes
\* to the event's own chat id with the text derived from the event's own
\* text, caption, attachment and collaborator answers, and a step of one
\* handler changes nothing of the other's message, extraction, calls or reply.
C14_NoCrossTalk ==
  /\ [](\A r \in Reqs :
          /\ \A i \in CallsOf(r, "SendMessage") :
               /\ calls[r][i].args[1] = OwnEvent(r).Chat.ID
               /\ calls[r][i].args[2] = OwnReplyText(r)
          /\ \A i \in CallsOf(r, "chains.Run") :
               calls[r][i].args = <<OwnEvent(r).Text>>
          /\ \A i \in CallsOf(r, "GetImageUrl") :
               calls[r][i].args[1] \in OwnFileIDs(r)
          /\ Normalized(r) =>
               /\ msg[r][1].Text =
                    IF msg[r][1].Image # <<>> /\ OwnEvent(r).Caption # ""
                      THEN OwnEvent(r).Caption ELSE OwnEvent(r).Text
               /\ msg[r][1].Image # <<>> =>
                    /\ msg[r][1].Image[1].FileID \in OwnFileIDs(r)
                    /\ msg[r][1].Image[1].ExtractedText = OwnReplyText(r))
  /\ [][\A r \in Reqs :
          pc'[r] = pc[r] =>
            /\ msg'[r] = msg[r] /\ chatID'[r] = chatID[r] /\ url'[r] = url[r]
            /\ ocrResp'[r] = ocrResp[r] /\ response'[r] = response[r]
            /\ calls'[r] = calls[r] /\ reply'[r] = reply[r]]_vars

\* Both handlers in flight: the document's reply is delivered to chat 1002
\* while the photo's handler, normalized later, is still about to send.
C14_Witness ==
  /\ pc[1] = "send" /\ pc[2] = "done"
  /\ msg[1][1].Image # <<>>
  /\ msg[2] # <<>> /\ msg[2][1].Image # <<>>
  /\ Delivered(2)
  /\ calls[2][3].args[1] = 1002
  /\ chatID[1] = 1001
  /\ response[1] # response[2]

\* The place of a collaborator call in the handler's order.
CallRank(fn) ==
  CASE fn = "GetImageUrl" -> 1
    [] fn = "ExtractTextFromImage" -> 2
    [] fn = "chains.Run" -> 3
    [] fn = "SendMessage" -> 4
    [] OTHER -> 0

\* C15: within one event the collaborator calls come strictly in the order
\* GetImageUrl, ExtractTextFromImage, response production, SendMessage; the
\* OCR call follows a GetImageUrl call that returned no error and is given
\* exactly the url it returned; response production starts only once
\* normalization has returned a message; SendMessage starts only once
\* response production has returned without error, and sends what it returned.
C15_CallsInOrder ==
  \A r \in Reqs :
    /\ \A i, j \in 1..Len(calls[r]) :
         i < j => /\ CallRank(calls[r][i].fn) >= 1
                  /\ CallRank(calls[r][i].fn) < CallRank(calls[r][j].fn)
    /\ \A i \in CallsOf(r, "ExtractTextFromImage") :
         /\ i > 1
         /\ calls[r][i - 1].fn = "GetImageUrl"
         /\ calls[r][i - 1].ret.err = <<>>
         /\ calls[r][i - 1].ret.url # <<>>
         /\ calls[r][i].args = <<calls[r][i - 1].ret.url>>
    /\ (pc[r] \in {"handle", "send"} \/ CallsOf(r, "chains.Run") # {}
        \/ CallsOf(r, "SendMessage") # {}) =>
         /\ msg[r] # <<>>
         /\ (HasPhoto(r) \/ HasDocument(r)) =>
              /\ CallsOf(r, "ExtractTextFromImage") # {}
              /\ msg[r][1].Image # <<>>
    /\ (pc[r] = "send" \/ CallsOf(r, "SendMessage") # {}) =>
         /\ \A i \in CallsOf(r, "chains.Run") : calls[r][i].ret.err = <<>>
         /\ msg[r][1].Image = <<>> =>
              /\ CallsOf(r, "chains.Run") # {}
              /\ \A i \in CallsOf(r, "chains.Run") :
                   response[r] = calls[r][i].ret.output
         /\ \A i \in CallsOf(r, "SendMessage") :
              i = Len(calls[r]) /\ calls[r][i].args[2] = response[r]

\* A document handled to the end: GetImageUrl, then the OCR call on the url
\* it returned, then SendMessage.
C15_Witness ==
  \E r \in Reqs :
    /\ HasDocument(r) /\ ~HasPhoto(r)
    /\ pc[r] = "done"
    /\ Len(calls[r]) = 3
    /\ calls[r][1].fn = "GetImageUrl"
    /\ calls[r][2].fn = "ExtractTextFromImage"
    /\ calls[r][2].args = <<calls[r][1].ret.url>>
    /\ calls[r][3].fn = "SendMessage"

\* C16: for every event and every combination of collaborator failures, at
\* most one GetImageUrl call, one OCR call, one chains.Run call and one
\* SendMessage call are made; no call is repeated after it failed.
C16_AtMostOneCallEach ==
  \A r \in Reqs :
    /\ \A fn \in {"GetImageUrl", "ExtractTextFromImage", "chains.Run", "SendMessage"} :
         Cardinality(CallsOf(r, fn)) <= 1
    /\ \A i \in 1..Len(calls[r]) :
         /\ CallRank(calls[r][i].fn) >= 1
         /\ (calls[r][i].ret.err # <<>> /\ calls[r][i].fn # "ExtractTextFromImage")
              => i = Len(calls[r])
         /\ \A j \in 1..Len(calls[r]) : calls[r][j].fn = calls[r][i].fn => j = i

\* A photo with a document whose OCR call failed and whose delivery failed:
\* three calls, none repeated.
C16_Witness ==
  \E r \in Reqs :
    /\ HasPhoto(r) /\ HasDocument(r)
    /\ pc[r] = "done"
    /\ Len(calls[r]) = 3
    /\ calls[r][2].fn = "ExtractTextFromImage" /\ calls[r][2].ret.err # <<>>
    /\ calls[r][3].fn = "SendMessage" /\ calls[r][3].ret.err # <<>>

\* The statuses under which the provider's validation-error structure
\* ({"detail": [{loc, msg, type}]}) arrives: 422 Unprocessable Entity, the
\* status the provider serves it with, and 442, the value the switch tests.
ValidationStatuses == {StatusValidation, 422}

\* The provider answered with a structured validation failure.
StructuredValidationFailure(resp) ==
  /\ resp.transport
  /\ resp.status \in ValidationStatuses
  /\ resp.body.kind = "validation"

\* C17: when the OCR provider returns a structured validation failure,
\* ExtractTextFromImage reports a validation failure carrying the message of
\* the first detail entry, or "unknown validation error" when there is no
\* detail entry; never a generic provider error with status and raw body,
\* and never success.
C17_ValidationReported ==
  \A r \in Reqs :
    (OcrAnswered(r) /\ StructuredValidationFailure(ocrResp[r][1])) =>
      \A i \in CallsOf(r, "ExtractTextFromImage") :
        LET e == calls[r][i].ret.err
            d == ocrResp[r][1].body.detail
        IN /\ e # <<>>
           /\ calls[r][i].ret.text = ""
           /\ e[1] # "API request failed with status "
           /\ e[1] = "validation error: "
           /\ e[2] = IF Len(d) > 0 THEN d[1].Msg ELSE "unknown validation error"

====
